---- MODULE Spec2Model ----
(***************************************************************************)
(* Model of zarlink's Connection (src/zarlink/src/connection/mod.rs): the  *)
(* NUL-framed send_call / receive_reply engine over a byte-stream socket.  *)
(*                                                                         *)
(* Buffers are sequences of bytes; Rust's 0-based offsets are kept and     *)
(* translated by At/Put/Slice.  A Rust panic (index out of bounds, unwrap  *)
(* of None, arithmetic overflow) ends the connection: pc = "panicked".     *)
(* receive_reply suspends at every socket read, so it is modelled as one   *)
(* step per read; send_call changes no state around its single write and   *)
(* is one step.                                                            *)
(***************************************************************************)
EXTENDS Integers, Sequences, FiniteSets, TLC

VARIABLES
    growable,            \* cfg(feature = "std"): fixed at build time
    read_pos,            \* Connection.read_pos
    write_buffer,        \* Connection.write_buffer
    method_name_buffer,  \* Connection.method_name_buffer
    read_buffer,         \* Connection.read_buffer
    pc,                  \* "idle" | "read" (suspended in socket.read) | "panicked"
    pos,                 \* local `pos` of read_from_socket while pc = "read"
    op,                  \* last operation started: "none" | "send_call" | "receive_reply"
    result,              \* outcome of the last finished operation
    doc,                 \* bytes handed to from_slice by the last receive_reply
    wire,                \* bytes given to socket.write by the last send_call
    writes,              \* socket.write calls issued by the last send_call
    reads,               \* socket.read calls issued by the current/last receive_reply
    received,            \* bytes the socket.reads of the last reading receive_reply returned
    fills,               \* socket.read calls that reading receive_reply issued
    served,              \* receive_reply calls ended since (and including) that reading call
    startPos,            \* read_pos when the current/last receive_reply started
    callName,            \* interface + "." + method of the last send_call
    callEnc,             \* serialized Call of the last send_call (<<>> if never built)
    ops,                 \* operations started on this connection
    carried              \* bytes the socket gave to cancelled attempts of this receive_reply

vars == <<growable, read_pos, write_buffer, method_name_buffer, read_buffer, pc, pos,
          op, result, doc, wire, writes, reads, received, fills, served, startPos, callName,
          callEnc, ops, carried>>

\* what is recorded about the last send_call / the last receive_reply calls; an
\* operation of the other kind clears the record
sendRecord == <<wire, writes, callName, callEnc>>
recvRecord == <<doc, reads, received, fills, served, startPos, carried>>
NoSendRecord ==
    /\ wire' = <<>>
    /\ writes' = 0
    /\ callName' = <<>>
    /\ callEnc' = <<>>
NoRecvRecord ==
    /\ doc' = <<>>
    /\ reads' = 0
    /\ received' = <<>>
    /\ fills' = 0
    /\ served' = 0
    /\ startPos' = 0
    /\ carried' = <<>>

----------------------------------------------------------------------------
\* Sizes.  The source's 1024 / 1024 * 1024 / 256 are scaled down; the ratio
\* ceiling : increment is kept as a whole number of increments.
BUFFER_SIZE == 8
MaxIncrements == 2
MAX_BUFFER_SIZE == MaxIncrements * BUFFER_SIZE
METHOD_NAME_BUFFER_SIZE == 5

\* Bounds of the exploration.
MaxBatch == 2     \* most messages in a well-formed batch
MaxReads == 2     \* socket.read calls followed within one receive_reply
MaxOps == 2       \* operations followed on one connection (a retry is not a new one)
MaxCarried == 1   \* most bytes the dropped attempts of one receive_reply have received

NUL == 0
DOT == 46

\* What the codec distinguishes in a document: the fields it has.
ERROR_TAG == 1    \* an "error" field
PARAMS_TAG == 2   \* a "parameters" field
UNKNOWN_TAG == 3  \* anything else

----------------------------------------------------------------------------
\* 0-based buffer access, as in the Rust source.
At(buf, i) == buf[i + 1]
InBounds(buf, i) == i >= 0 /\ i < Len(buf)
Put(buf, i, b) == [buf EXCEPT ![i + 1] = b]
\* buf[from..to]
Slice(buf, from, to) == SubSeq(buf, from + 1, to)
Zeros(n) == [i \in 1..n |-> 0]
\* copy `data` into buf starting at offset `at` (data fits)
Overwrite(buf, at, data) ==
    [i \in 1..Len(buf) |-> IF i > at /\ i <= at + Len(data) THEN data[i - at] ELSE buf[i]]

\* memchr::memchr(needle, haystack): offset of the first occurrence, -1 for None
memchr(needle, haystack) ==
    IF \E i \in 1..Len(haystack) : haystack[i] = needle
    THEN (CHOOSE i \in 1..Len(haystack) :
              /\ haystack[i] = needle
              /\ \A j \in 1..(i - 1) : haystack[j] # needle) - 1
    ELSE -1

----------------------------------------------------------------------------
\* Codec.  serde_json / serde_json_core are external; only what the connection
\* relies on is modelled: an encoding is a NUL-free byte string that contains
\* every field of the Call, and a decode accepts or rejects a document.

\* Option<bool> as its JSON token (null / true / false), one byte each
OptByte(o) == IF o = "None" THEN 110 ELSE IF o = "true" THEN 116 ELSE 102

\* #[derive(Serialize)] struct Call { method, parameters, one_way, more, upgrade }
SerializeCall(call) ==
    call.method \o call.parameters
        \o <<OptByte(call.one_way), OptByte(call.more), OptByte(call.upgrade)>>

\* (variant of to_slice used to test C5: an encoding that does not fit is cut to
\* the buffer's length and reported as written)
to_slice_truncating(value, buf) ==
    LET enc == SerializeCall(value) IN
    IF Len(enc) > Len(buf)
    THEN [ok |-> TRUE, buf |-> SubSeq(enc, 1, Len(buf))]
    ELSE [ok |-> TRUE, buf |-> Overwrite(buf, 0, enc)]

\* to_slice(value, buf): the encoding is written from offset 0 of the slice; what
\* lies beyond it is left as it was.  When it does not fit, the slice has been
\* filled with the part that did and the call fails.
to_slice(value, buf) ==
    LET enc == SerializeCall(value) IN
    IF Len(enc) > Len(buf)
    THEN [ok |-> FALSE, buf |-> SubSeq(enc, 1, Len(buf))]
    ELSE [ok |-> TRUE, buf |-> Overwrite(buf, 0, enc)]

\* from_slice::<ReplyError>: succeeds iff the document carries an "error" field
DecodesAsReplyError(buffer) == \E i \in 1..Len(buffer) : buffer[i] = ERROR_TAG
\* from_slice::<Reply<Params>>: succeeds iff it carries a "parameters" field
\* (other fields, an "error" field among them, are ignored)
DecodesAsReply(buffer) == \E i \in 1..Len(buffer) : buffer[i] = PARAMS_TAG

\* (variant of from_slice used to test C12: the Reply type is tried first)
from_slice_reply_first(buffer) ==
    IF DecodesAsReply(buffer) THEN "Reply"
    ELSE IF DecodesAsReplyError(buffer) THEN "ReplyError"
    ELSE "Deserialization"

\* the match at the end of receive_reply: error type first, then Reply
from_slice(buffer) ==
    IF DecodesAsReplyError(buffer) THEN "ReplyError"
    ELSE IF DecodesAsReply(buffer) THEN "Reply"
    ELSE "Deserialization"

----------------------------------------------------------------------------
\* mayheap::String<N>::push_str / push: appends when the result fits in N bytes,
\* otherwise fails and leaves the string as it was.
push_str(s, str) ==
    IF Len(s) + Len(str) <= METHOD_NAME_BUFFER_SIZE
    THEN [ok |-> TRUE, s |-> s \o str]
    ELSE [ok |-> FALSE, s |-> s]

\* Connection::push_method_name: three appends onto the buffer as it stands
push_method_name(buf, interface, method) ==
    LET a == push_str(buf, interface)
        b == push_str(a.s, <<DOT>>)
        c == push_str(b.s, method)
    IN  IF ~a.ok THEN a ELSE IF ~b.ok THEN b ELSE c

\* Inputs of send_call
Interfaces == {<<1>>, <<1, 1, 1, 1>>}
Methods == {<<>>, <<2>>}
Parameters == {<<1>>, <<1, 2, 2, 1>>}
Flags == {<<"None", "None", "None">>, <<"true", "None", "false">>}

\* Connection::send_call; wok: whether the socket accepts the write
send_call(interface, method, parameters, fl, wok) ==
    LET name == push_method_name(method_name_buffer, interface, method)
        call == [method |-> name.s, parameters |-> parameters,
                 one_way |-> fl[1], more |-> fl[2], upgrade |-> fl[3]]
        ser == to_slice(call, write_buffer)
    IN
    /\ pc = "idle"
    /\ ops < MaxOps
    /\ ops' = ops + 1
    /\ op' = "send_call"
    /\ callName' = interface \o <<DOT>> \o method
    /\ method_name_buffer' = name.s
    /\ IF ~name.ok
       THEN /\ result' = "BufferOverflow"
            /\ callEnc' = <<>>
            /\ wire' = <<>>
            /\ writes' = 0
            /\ UNCHANGED write_buffer
       ELSE /\ callEnc' = SerializeCall(call)
            /\ write_buffer' = ser.buf
            /\ IF ~ser.ok
               THEN /\ result' = "Serialization"
                    /\ wire' = <<>>
                    /\ writes' = 0
               ELSE /\ wire' = ser.buf
                    /\ writes' = 1
                    /\ result' = IF wok THEN "Ok" ELSE "Transport"
    /\ NoRecvRecord
    /\ UNCHANGED <<growable, read_pos, read_buffer, pc, pos>>

----------------------------------------------------------------------------
\* receive_reply after read_from_socket returned Ok: find the terminator, take
\* the document, move the cursor.  `null_index` is the offset memchr reports
\* within the sub-slice it was given.  Every failed unwrap, slice or index is a
\* panic, and all of them come before the cursor is assigned.
extract(rb, rp) ==
    LET null_index == IF rp <= Len(rb) THEN memchr(NUL, Slice(rb, rp, Len(rb))) ELSE -1
        panics == \/ rp > Len(rb)                       \* read_buffer[read_pos..]
                  \/ null_index = -1                    \* .unwrap()
                  \/ rp > null_index                    \* [read_pos..null_index]
                  \/ ~InBounds(rb, null_index + 1)      \* read_buffer[null_index + 1]
    IN  IF panics
        THEN [panic |-> TRUE, buffer |-> <<>>, read_pos |-> rp]
        ELSE [panic |-> FALSE,
              buffer |-> Slice(rb, rp, null_index),
              read_pos |-> IF At(rb, null_index + 1) = NUL THEN 0 ELSE null_index + 1]

\* (variant of read_iteration used to test C17: the end marker goes into the
\* read buffer, and only when the offset exists, so that a full buffer reaches
\* the growth branch)
read_iteration_growing(rb, wb, p, chunk) ==
    LET bytes_read == Len(chunk)
        total_read == p + bytes_read
        rb0 == Overwrite(rb, p, chunk)
        rb1 == IF InBounds(rb0, total_read) THEN Put(rb0, total_read, NUL) ELSE rb0
        grow == growable /\ total_read >= Len(wb)
    IN  IF total_read - 1 < 0
        THEN [outcome |-> "panic", read_buffer |-> rb1, write_buffer |-> wb, pos |-> p]
        ELSE IF At(rb1, total_read - 1) = NUL
        THEN [outcome |-> "break", read_buffer |-> rb1, write_buffer |-> wb, pos |-> p]
        ELSE IF grow /\ total_read >= MAX_BUFFER_SIZE
        THEN [outcome |-> "overflow", read_buffer |-> rb1, write_buffer |-> wb, pos |-> p]
        ELSE IF ~growable /\ total_read >= Len(rb1)
        THEN [outcome |-> "panic", read_buffer |-> rb1, write_buffer |-> wb, pos |-> p]
        ELSE [outcome |-> "continue", read_buffer |-> rb1,
              write_buffer |-> IF grow THEN wb \o Zeros(BUFFER_SIZE) ELSE wb,
              pos |-> p + bytes_read]

\* One turn of the loop of read_from_socket, from the return of socket.read
\* (which stored `chunk` at read_buffer[pos..]) to the end of the loop body.
read_iteration(rb, wb, p, chunk) ==
    LET bytes_read == Len(chunk)
        total_read == p + bytes_read
        rb1 == Overwrite(rb, p, chunk)
        wb1 == IF InBounds(wb, total_read) THEN Put(wb, total_read, NUL) ELSE wb
        grow == growable /\ total_read >= Len(wb1)
    IN  IF ~InBounds(wb, total_read) \/ total_read - 1 < 0
        THEN [outcome |-> "panic", read_buffer |-> rb1, write_buffer |-> wb1, pos |-> p]
        ELSE IF At(wb1, total_read - 1) = NUL
        THEN [outcome |-> "break", read_buffer |-> rb1, write_buffer |-> wb1, pos |-> p]
        ELSE IF grow /\ total_read >= MAX_BUFFER_SIZE
        THEN [outcome |-> "overflow", read_buffer |-> rb1, write_buffer |-> wb1, pos |-> p]
        ELSE [outcome |-> "continue", read_buffer |-> rb1,
              write_buffer |-> IF grow THEN wb1 \o Zeros(BUFFER_SIZE) ELSE wb1,
              pos |-> p + bytes_read]

\* Wire format: each document is NUL-free and followed by one NUL; a batch
\* delivered together ends with two NULs.
Bytes == {NUL, ERROR_TAG, PARAMS_TAG}
\* an error reply (with parameters), a success reply, and a document that is
\* neither
Docs == {<<ERROR_TAG, PARAMS_TAG>>, <<PARAMS_TAG>>, <<UNKNOWN_TAG>>}
RECURSIVE Frame(_)
Frame(ds) == IF ds = <<>> THEN <<NUL>> ELSE Head(ds) \o <<NUL>> \o Frame(Tail(ds))
Batches == {Frame(ds) : ds \in UNION {[1..n -> Docs] : n \in 1..MaxBatch}}

\* what one socket.read may return when `space` bytes of buffer are offered:
\* nothing or any single byte (the shortest reads, of which every other
\* piecewise delivery is made), a whole batch, or, when a message longer than
\* the buffer is arriving, as much of it as fills the space offered
ShortChunks == {<<>>} \cup {<<b>> : b \in Bytes}
Filling(space) == [i \in 1..space |-> PARAMS_TAG]
Chunks(space) == {c \in ShortChunks \cup Batches : Len(c) <= space} \cup {Filling(space)}

\* the rest of receive_reply once the buffer rb is known to hold a message
Deliver(rb) ==
    LET e == extract(rb, read_pos) IN
    /\ served' = served + 1
    /\ pos' = 0
    /\ IF e.panic
       THEN /\ pc' = "panicked"
            /\ result' = "panic"
            /\ doc' = <<>>
            /\ UNCHANGED read_pos
       ELSE /\ pc' = "idle"
            /\ read_pos' = e.read_pos
            /\ doc' = e.buffer
            /\ result' = from_slice(e.buffer)

\* receive_reply is called: read_from_socket returns at once when the cursor is
\* not 0, otherwise it enters its loop and suspends in the first socket.read
RecvStart ==
    /\ pc = "idle"
    /\ ops < MaxOps \/ result = "cancelled"
    /\ ops' = IF result = "cancelled" THEN ops ELSE ops + 1
    /\ carried' = IF result = "cancelled" THEN carried ELSE <<>>
    /\ op' = "receive_reply"
    /\ startPos' = read_pos
    /\ reads' = 0
    /\ IF read_pos > 0
       THEN /\ Deliver(read_buffer)
            /\ UNCHANGED <<received, fills>>
       ELSE /\ pc' = "read"
            /\ pos' = read_pos
            /\ received' = <<>>
            /\ fills' = 0
            /\ served' = 0
            /\ result' = "pending"
            /\ doc' = <<>>
            /\ UNCHANGED read_pos
    /\ UNCHANGED <<growable, write_buffer, method_name_buffer, read_buffer>>
    /\ NoSendRecord

\* a socket.read returns `chunk`; the loop body runs, and when it breaks the
\* rest of receive_reply runs too
RecvRead(chunk) ==
    LET it == read_iteration(read_buffer, write_buffer, pos, chunk) IN
    /\ pc = "read"
    /\ reads < MaxReads
    /\ reads' = reads + 1
    /\ fills' = fills + 1
    /\ received' = received \o chunk
    /\ read_buffer' = it.read_buffer
    /\ write_buffer' = it.write_buffer
    /\ CASE it.outcome = "break" -> Deliver(it.read_buffer)
         [] it.outcome = "continue" ->
                /\ pos' = it.pos
                /\ UNCHANGED <<pc, read_pos, doc, result, served>>
         [] it.outcome = "overflow" ->
                /\ pc' = "idle"
                /\ result' = "BufferOverflow"
                /\ served' = served + 1
                /\ pos' = 0
                /\ UNCHANGED <<read_pos, doc>>
         [] it.outcome = "panic" ->
                /\ pc' = "panicked"
                /\ result' = "panic"
                /\ served' = served + 1
                /\ pos' = 0
                /\ UNCHANGED <<read_pos, doc>>
    /\ UNCHANGED <<growable, method_name_buffer, op, startPos, ops, carried>>
    /\ UNCHANGED sendRecord

\* (variant of RecvReadErr used to test C13: the fill offset reached so far is
\* stored in the cursor before the error is returned)
RecvReadErr_keeping_offset ==
    /\ pc = "read"
    /\ reads < MaxReads
    /\ reads' = reads + 1
    /\ fills' = fills + 1
    /\ pc' = "idle"
    /\ result' = "Transport"
    /\ served' = served + 1
    /\ pos' = 0
    /\ read_pos' = pos
    /\ UNCHANGED <<doc, received, op, startPos, ops, carried>>
    /\ UNCHANGED <<growable, write_buffer, method_name_buffer, read_buffer>>
    /\ UNCHANGED sendRecord

\* a socket.read fails: `?` returns the error from read_from_socket and from
\* receive_reply
RecvReadErr ==
    /\ pc = "read"
    /\ reads < MaxReads
    /\ reads' = reads + 1
    /\ fills' = fills + 1
    /\ pc' = "idle"
    /\ result' = "Transport"
    /\ served' = served + 1
    /\ pos' = 0
    /\ UNCHANGED <<read_pos, doc, received, op, startPos, ops, carried>>
    /\ UNCHANGED <<growable, write_buffer, method_name_buffer, read_buffer>>
    /\ UNCHANGED sendRecord

\* the caller drops the receive_reply future while it is suspended in
\* socket.read: the locals of read_from_socket (`pos`) are gone, the fields of
\* the Connection stay as the reads that returned left them
Cancel ==
    /\ pc = "read"
    /\ Len(carried \o received) <= MaxCarried
    /\ pc' = "idle"
    /\ result' = "cancelled"
    /\ pos' = 0
    /\ carried' = carried \o received
    /\ UNCHANGED <<read_pos, doc, reads, received, fills, served, op, startPos, ops>>
    /\ UNCHANGED <<growable, write_buffer, method_name_buffer, read_buffer>>
    /\ UNCHANGED sendRecord

----------------------------------------------------------------------------
\* Connection::new, in either build configuration
Init ==
    /\ growable \in BOOLEAN
    /\ read_pos = 0
    /\ write_buffer = Zeros(BUFFER_SIZE)
    /\ read_buffer = Zeros(BUFFER_SIZE)
    /\ method_name_buffer = <<>>
    /\ pc = "idle"
    /\ pos = 0
    /\ op = "none"
    /\ result = "none"
    /\ doc = <<>>
    /\ wire = <<>>
    /\ writes = 0
    /\ reads = 0
    /\ received = <<>>
    /\ fills = 0
    /\ served = 0
    /\ startPos = 0
    /\ callName = <<>>
    /\ callEnc = <<>>
    /\ ops = 0
    /\ carried = <<>>

SendCall ==
    \E interface \in Interfaces, method \in Methods, parameters \in Parameters,
       fl \in Flags, wok \in BOOLEAN :
        send_call(interface, method, parameters, fl, wok)

SocketRead == \E chunk \in Chunks(Len(read_buffer) - pos) : RecvRead(chunk)

Next == SendCall \/ RecvStart \/ SocketRead \/ RecvReadErr

Spec == Init /\ [][Next]_vars

\* the same connection with a caller that may also drop a suspended
\* receive_reply and call it again
NextWithCancel == SendCall \/ RecvStart \/ SocketRead \/ RecvReadErr \/ Cancel

SpecWithCancel == Init /\ [][NextWithCancel]_vars

----------------------------------------------------------------------------
\* Vocabulary of the properties

\* outcomes in which a document was extracted and given to the decoder
Delivered == {"Reply", "ReplyError", "Deserialization"}

Last(s) == s[Len(s)]
HasNul(s) == \E i \in 1..Len(s) : s[i] = NUL

\* the documents of a framed batch, in order
RECURSIVE Unframe(_)
Unframe(b) ==
    IF b = <<>> \/ Head(b) = NUL THEN <<>>
    ELSE LET n == memchr(NUL, b) IN
         IF n = -1 THEN <<b>>
         ELSE <<Slice(b, 0, n)>> \o Unframe(Slice(b, n + 1, Len(b)))

\* socket.read calls issued so far by the current/last receive_reply: those that
\* returned, and the one it is suspended in
IssuedReads == reads + (IF pc = "read" THEN 1 ELSE 0)

\* a receive_reply found the cursor at 0 and its first socket.read returned a
\* whole batch that leaves room for the end marker; `served` calls have ended
\* since
BatchInOneRead ==
    /\ op = "receive_reply"
    /\ pc # "read"
    /\ fills = 1
    /\ received \in Batches
    /\ Len(received) < BUFFER_SIZE
    /\ served \in 1..Len(Unframe(received))

\* C1: the N messages of a batch that arrived in one socket.read are handed out
\* by N successive receive_reply calls in the order they were framed, each
\* document being exactly the bytes of its message; the cursor is non-zero after
\* each of the first N-1 calls and 0 after the N-th.
C1_BatchInOrder ==
    BatchInOneRead =>
        /\ result \in Delivered
        /\ doc = Unframe(received)[served]
        /\ (read_pos = 0 <=> served = Len(Unframe(received)))

\* C2: replies batched in one socket.read are delivered one per receive_reply
\* call, and the whole batch costs one socket.read: the call that found the
\* cursor at 0 issued one, the calls that found it non-zero issued none.
C2_BatchCostsOneRead ==
    (/\ op = "receive_reply"
     /\ pc # "read"
     /\ received \in Batches
     /\ Len(received) < BUFFER_SIZE
     /\ served \in 1..Len(Unframe(received)))
    =>  /\ result \in Delivered
        /\ fills = 1
        /\ IssuedReads = (IF served = 1 THEN 1 ELSE 0)
        /\ (served > 1 => startPos # 0)

\* C3: a receive_reply that read from the socket returns a document only once a
\* complete NUL-terminated message has been received, and the document is made
\* of all the bytes received before that terminator, in order.
C3_WholeMessage ==
    (/\ op = "receive_reply"
     /\ pc = "idle"
     /\ served = 1
     /\ result \in Delivered)
    =>  /\ HasNul(received)
        /\ doc = Slice(received, 0, memchr(NUL, received))

\* C4: send_call fails with BufferOverflow, without writing to the socket, when
\* interface + "." + method is longer than the method-name buffer, and only
\* then: the outcome depends on the current call's name alone.
C4_OverflowByCurrentName ==
    op = "send_call" =>
        /\ (result = "BufferOverflow" <=> Len(callName) > METHOD_NAME_BUFFER_SIZE)
        /\ (result = "BufferOverflow" => writes = 0 /\ wire = <<>>)

\* C5: a send_call whose serialized Call is longer than the write buffer's
\* capacity fails with Serialization and writes nothing to the socket.
C5_SerializationNoWrite ==
    (op = "send_call" /\ Len(callEnc) > BUFFER_SIZE)
    =>  /\ result = "Serialization"
        /\ writes = 0
        /\ wire = <<>>

C5_Witness ==
    /\ op = "send_call"
    /\ ops > 1
    /\ Len(callEnc) > BUFFER_SIZE
    /\ result = "Serialization"
    /\ writes = 0

\* C6: when receive_reply starts with the cursor at 0 and the socket.read returns
\* one success document followed by two NULs, receive_reply gives the decoder
\* exactly the bytes before the first NUL, returns the success variant and
\* leaves the cursor at 0.
C6_SingleSuccessReply ==
    (/\ op = "receive_reply"
     /\ startPos = 0
     /\ reads = 1
     /\ \E d \in Docs : /\ DecodesAsReply(d)
                          /\ ~DecodesAsReplyError(d)
                          /\ received = Frame(<<d>>)
     /\ Len(received) < BUFFER_SIZE)
    =>  /\ pc = "idle"
        /\ result = "Reply"
        /\ doc = Unframe(received)[1]
        /\ read_pos = 0

\* C7: a receive_reply that starts with the cursor at 0 and whose socket.read
\* returns bytes ending in NUL issues that one socket.read and no other.
C7_ExactlyOneRead ==
    (/\ op = "receive_reply"
     /\ startPos = 0
     /\ reads = 1
     /\ received # <<>>
     /\ Last(received) = NUL
     /\ Len(received) < BUFFER_SIZE)
    =>  IssuedReads = 1

\* C8: between operations the cursor is 0 or the offset of the first byte of a
\* message: the byte before it is a terminator and the message's own terminator
\* is among the bytes received.  Stated for what the wire format allows, a
\* well-formed batch.
C8_CursorAtMessageStart ==
    (op = "receive_reply" /\ pc = "idle" /\ received \in Batches)
    =>  \/ read_pos = 0
        \/ /\ InBounds(read_buffer, read_pos)
           /\ At(read_buffer, read_pos - 1) = NUL
           /\ \E j \in read_pos..(Len(received) - 1) : At(read_buffer, j) = NUL

\* the read buffer has been filled and what was received does not end at a
\* message boundary
FullBeforeBoundary ==
    /\ op = "receive_reply"
    /\ Len(received) >= BUFFER_SIZE
    /\ ~HasNul(received)

\* C9: growable configuration: when the read buffer fills before a message
\* boundary it is extended by one increment and reading continues.
C9_GrowsAndContinues ==
    (growable /\ FullBeforeBoundary /\ Len(received) < MAX_BUFFER_SIZE)
    =>  /\ pc = "read"
        /\ Len(read_buffer) >= Len(received) + 1

\* C10: growable configuration: a receive_reply that filled the buffer without
\* reaching a boundary ends, if not by a transport error, with BufferOverflow;
\* and no buffer is ever longer than the ceiling.
C10_OverflowAtCeiling ==
    /\ (growable /\ FullBeforeBoundary /\ pc # "read" /\ result # "Transport")
            => result = "BufferOverflow"
    /\ Len(read_buffer) <= MAX_BUFFER_SIZE
    /\ Len(write_buffer) <= MAX_BUFFER_SIZE
    /\ Len(method_name_buffer) <= MAX_BUFFER_SIZE

\* C11: fixed-capacity configuration: as soon as the read buffer is full without
\* a message boundary, receive_reply has returned BufferOverflow; and no buffer
\* ever changes its length.
C11_FixedOverflow ==
    /\ (~growable /\ FullBeforeBoundary) => (pc = "idle" /\ result = "BufferOverflow")
    /\ ~growable => (Len(read_buffer) = BUFFER_SIZE /\ Len(write_buffer) = BUFFER_SIZE)

\* C12: for every extracted document, receive_reply returns the error variant
\* exactly when the document decodes as the error type; otherwise the success
\* variant when it decodes as a Reply, and Deserialization when it decodes as
\* neither.
C12_ErrorTypeFirst ==
    (op = "receive_reply" /\ pc = "idle" /\ result \in Delivered)
    =>  /\ (result = "ReplyError" <=> DecodesAsReplyError(doc))
        /\ (result = "Reply" <=> (~DecodesAsReplyError(doc) /\ DecodesAsReply(doc)))
        /\ (result = "Deserialization" <=>
                (~DecodesAsReplyError(doc) /\ ~DecodesAsReply(doc)))

\* an error document that a Reply decode would accept too has been extracted
\* from a batch and returned as the error variant
C12_Witness ==
    /\ op = "receive_reply"
    /\ pc = "idle"
    /\ received \in Batches
    /\ DecodesAsReplyError(doc)
    /\ DecodesAsReply(doc)
    /\ result = "ReplyError"

\* C13: when a socket.read inside read_from_socket fails, receive_reply returns
\* the Transport error, is no longer reading, and the cursor is what it was
\* when the call started.
C13_TransportKeepsCursor ==
    (op = "receive_reply" /\ result = "Transport")
    =>  /\ pc = "idle"
        /\ read_pos = startPos

\* the second socket.read of a call fails, after a first one that delivered bytes
C13_Witness ==
    /\ op = "receive_reply"
    /\ result = "Transport"
    /\ pc = "idle"
    /\ reads = 2
    /\ received # <<>>
    /\ read_pos = startPos

\* C14: in every send_call that reaches the transport, the method name in the
\* transmitted Call is the current call's interface + "." + method, whatever
\* names earlier calls on the connection used.
C14_NameOfCurrentCall ==
    (op = "send_call" /\ writes = 1)
    => \E p \in Parameters, fl \in Flags :
           callEnc = SerializeCall([method |-> callName, parameters |-> p,
                                    one_way |-> fl[1], more |-> fl[2], upgrade |-> fl[3]])

\* C15: a successful send_call performs exactly one socket.write, and its bytes
\* are exactly the encoding of the current call: nothing of an earlier call and
\* nothing beyond the encoded length.
C15_WritesEncodingOnly ==
    (op = "send_call" /\ result = "Ok")
    =>  /\ writes = 1
        /\ wire = callEnc

\* C16: in read_from_socket, after each socket.read that returned bytes and left
\* room for the marker, the read buffer holds a NUL just past all bytes received
\* so far, and the loop has stopped exactly when the byte received last is NUL.
C16_MarkerAndStop ==
    (/\ op = "receive_reply"
     /\ reads >= 1
     /\ result \notin {"Transport", "cancelled"}
     /\ received # <<>>
     /\ Len(received) < BUFFER_SIZE)
    =>  /\ At(read_buffer, Len(received)) = NUL
        /\ (pc = "read" <=> Last(received) # NUL)

C18_CancelThenRetry ==
    /\ (op = "receive_reply" /\ result = "cancelled") => read_pos = startPos
    /\ (/\ op = "receive_reply"
        /\ pc = "idle"
        /\ reads >= 1
        /\ carried # <<>>
        /\ ~HasNul(carried)
        /\ HasNul(received)
        /\ Unframe(carried \o received)[1] \in Docs
        /\ result \in Delivered)
       => doc = Unframe(carried \o received)[1]

\* C19: receive_reply and read_from_socket never index out of bounds and the NUL
\* search never fails, whatever the size of each socket.read from 0 to the space
\* offered.
C19_NoPanic ==
    op = "receive_reply" => (pc # "panicked" /\ result # "panic")

\* C20: a receive_reply that returned Deserialization for a message of a batch
\* has consumed that message: the next receive_reply delivers the message that
\* follows it.
C20_MalformedConsumed ==
    (/\ BatchInOneRead
     /\ served >= 2
     /\ from_slice(Unframe(received)[served - 1]) = "Deserialization")
    =>  /\ result \in Delivered
        /\ doc = Unframe(received)[served]

====
